---- MODULE Spec2Model ----
(***************************************************************************)
(* Windowed table views, cross-view selection and paged streaming loads of *)
(* the earthquake data web application.                                    *)
(*                                                                         *)
(* Two table components are modelled, each in the place where the          *)
(* repository mounts it:                                                   *)
(*   "paged" : VirtualizedTable (pagination + virtual scrolling inside the *)
(*             page) under EarthquakeTableContainer;                       *)
(*   "v2"    : VirtualizedTableV2 (virtual scrolling over the whole list)  *)
(*             under App.                                                  *)
(* Both read the selection of SelectionProvider, as does the scatter plot. *)
(*                                                                         *)
(* A state of the model is a committed React render: the React state of    *)
(* the components, the scroll position of the scroll container in the DOM, *)
(* and which effects and scroll events are still to be delivered.          *)
(* Pixels are integers.  Records are identified by their id, a number in   *)
(* 1..MaxRecords; record id k of the feed is the k-th most recent and the  *)
(* k-th strongest event, so every sortable field is strictly monotone in   *)
(* the id and a filtered, sorted list is an ascending or descending run of *)
(* ids.                                                                    *)
(***************************************************************************)
EXTENDS Integers, Sequences, FiniteSets, TLC

Min(a, b) == IF a <= b THEN a ELSE b

Max(a, b) == IF a >= b THEN a ELSE b

\* Math.floor(a / b) for b > 0
Floor(a, b) == a \div b

\* Math.ceil(a / b) for b > 0
Ceil(a, b) == -((-a) \div b)

(***************************************************************************)
(* Inputs                                                                  *)
(***************************************************************************)

\* "null" of a record reference
NoRecord == 0

\* sizes of the record list a fetch or refresh can deliver
DataSizes == {0, 4, 130, 1000}

MaxRecords == 1000

\* records the user clicks on (in the table when rendered, in the chart)
SampleIds == {3, 120}

\* scroll positions the user drags the scroll bar to, besides top and bottom
ScrollStops == {90}

\* <option> values of the magnitude filter the user picks (thousandths);
\* 0 is "All magnitudes" (null)
MagnitudeOptions == {0, 4000, 6000}

SortFields == {"time", "magnitude"}

\* the component instances of the repository: props of <VirtualizedTable>
\* in EarthquakeTableContainer, of <VirtualizedTableV2> in App, and the
\* default props of VirtualizedTableV2
Instances ==
    { [table |-> "paged", itemHeight |-> 55, visibleItems |-> 15, pageSize |-> 50],
      [table |-> "v2", itemHeight |-> 60, visibleItems |-> 12, pageSize |-> 0],
      [table |-> "v2", itemHeight |-> 60, visibleItems |-> 10, pageSize |-> 0] }

\* const OVERSCAN of VirtualizedTableV2
OVERSCAN == 5

\* magnitude of record id, in thousandths: strictly decreasing in id
Magnitude(id) ==
    IF id <= 4 THEN 7000 - id
    ELSE IF id <= 100 THEN 5000 - id
    ELSE 4000 - id

\* number of records of the feed that pass `magnitude >= m`
MagnitudeCut ==
    [m \in MagnitudeOptions |->
        Cardinality({id \in 1..MaxRecords : Magnitude(id) >= m})]

VARIABLES
    inst,               \* the mounted table and its props
    rawN,               \* store: data is the records 1..rawN
    loading,            \* store: loading
    error,              \* store: error # null
    minMagnitude,       \* EarthquakeTableContainer state (0 = null)
    filteredData,       \* App state filteredData: the records 1..filteredData
    sortField,          \* sort state of the table's parent
    sortDirection,
    selectedEarthquake, \* SelectionProvider state: [id, via] or NoSelection
    currentPage,        \* VirtualizedTable state
    scrollTop,          \* table state scrollTop
    domScrollTop,       \* scrollTop of the scroll container element
    scrollEventPending, \* a scroll event of the container is queued
    selEffect,          \* the table's selection effect: "idle", "due", "next"
    parentEffectPending,\* the parent's effect is due
    lastEvent,          \* the last user interaction: [kind, arg, from]
    state,              \* useStreamingEarthquakeData: the hook's state
    requests,           \* the loadPage calls so far, in call order
    sourceRows,         \* valid rows of the CSV behind csvUrl
    rejectedRows,       \* rows of that CSV that validateRawEarthquakeData rejects
    lastCall,           \* the last call of the hook's API: [op, arg, ran]
    source,             \* the feed: what the CSV URL answers, and the CSV's rows
    store,              \* useEarthquakeStore: the zustand state
    cachedData,         \* module variable cachedData of the API service
    calls,              \* the fetchData / refreshData calls so far
    posted,             \* messages the data worker has posted
    manager,            \* the DataWorkerManager, its promises and its worker
    apiCall             \* a call of fetchWithRetry: its loop variable and requests

tableVars ==
    << inst, rawN, loading, error, minMagnitude, filteredData, sortField,
       sortDirection, selectedEarthquake, currentPage, scrollTop,
       domScrollTop, scrollEventPending, selEffect, parentEffectPending,
       lastEvent >>

stream == << state, requests, sourceRows, rejectedRows, lastCall >>

ingest == << source, store, cachedData, calls, posted, manager, apiCall >>

vars == << tableVars, stream, ingest >>

NoSelection == [id |-> NoRecord, via |-> "none"]

\* selectedId: selectedEarthquake?.id || null
selectedId == IF selectedEarthquake.id = NoRecord THEN NoRecord ELSE selectedEarthquake.id

table == inst.table
itemHeight == inst.itemHeight
visibleItems == inst.visibleItems
pageSize == inst.pageSize

(***************************************************************************)
(* The list the table is given                                             *)
(***************************************************************************)

\* EarthquakeTableContainer.processedData: length after the magnitude filter
\* (the records that pass are a prefix of 1..rawN, Magnitude being
\* decreasing; the search box is left empty)
ProcessedCount ==
    IF minMagnitude = 0 THEN rawN ELSE Min(rawN, MagnitudeCut[minMagnitude])

\* App.data: filteredData when it is not empty, else rawData
AppDataCount == IF filteredData > 0 THEN filteredData ELSE rawN

\* data.length of the table
N == IF table = "paged" THEN ProcessedCount ELSE AppDataCount

\* data[i] (0-based) after the sort: descending order of a field is
\* ascending order of ids
DataAt(i) == IF sortDirection = "desc" THEN i + 1 ELSE N - i

\* a search that answers 0 for a record that is not in the data
FindIndexOrFirst(id) ==
    IF \E i \in 0..(N - 1) : DataAt(i) = id
    THEN CHOOSE i \in 0..(N - 1) :
            DataAt(i) = id /\ \A j \in 0..(i - 1) : DataAt(j) # id
    ELSE 0

\* data.findIndex(eq => eq.id === id)
FindIndex(id) ==
    IF \E i \in 0..(N - 1) : DataAt(i) = id
    THEN CHOOSE i \in 0..(N - 1) :
            DataAt(i) = id /\ \A j \in 0..(i - 1) : DataAt(j) # id
    ELSE -1

(***************************************************************************)
(* VirtualizedTable (paged): derived values of a render                    *)
(***************************************************************************)

totalPages == Ceil(N, pageSize)

PagedStartIndex == (currentPage - 1) * pageSize

PagedEndIndex == Min(PagedStartIndex + pageSize, N)

\* paginatedData.length: Array.slice of an empty or inverted range is empty
PaginatedLength == Max(0, Min(PagedEndIndex, N) - Min(PagedStartIndex, N))

PagedContainerHeight == Min(visibleItems, PaginatedLength) * itemHeight

PagedTotalHeight == PaginatedLength * itemHeight

virtualStartIndex == Floor(scrollTop, itemHeight)

virtualEndIndex == Min(virtualStartIndex + visibleItems + 2, PaginatedLength)

(***************************************************************************)
(* VirtualizedTableV2: derived values of a render                          *)
(***************************************************************************)

V2ContainerHeight == visibleItems * itemHeight

V2TotalHeight == N * itemHeight

V2StartIndex == Max(0, Floor(scrollTop, itemHeight) - OVERSCAN)

\* V2EndIndex without the overscan rows
V2EndIndexNoOverscan ==
    Min(N - 1, Ceil(scrollTop + V2ContainerHeight, itemHeight))

\* inclusive; the rows rendered are data.slice(startIndex, endIndex + 1)
V2EndIndex ==
    Min(N - 1, Ceil(scrollTop + V2ContainerHeight, itemHeight) + OVERSCAN)

(***************************************************************************)
(* What either table shows                                                 *)
(***************************************************************************)

\* number of items of the slice being viewed
SliceLength == IF table = "paged" THEN PaginatedLength ELSE N

\* index in data of the first item of the slice
SliceBase == IF table = "paged" THEN Min(PagedStartIndex, N) ELSE 0

\* the materialized index range [WindowStart, WindowEnd) within the slice
WindowStart == IF table = "paged" THEN virtualStartIndex ELSE V2StartIndex

WindowEnd == IF table = "paged" THEN virtualEndIndex ELSE V2EndIndex + 1

ContainerHeight ==
    IF table = "paged" THEN PagedContainerHeight ELSE V2ContainerHeight

TotalHeight == IF table = "paged" THEN PagedTotalHeight ELSE V2TotalHeight

\* the parent (EarthquakeTableContainer, App) renders the table at all
ComponentMounted == ~((loading \/ error) /\ rawN = 0)

\* the table renders its scroll container (containerRef.current # null)
Mounted == ComponentMounted /\ ~loading /\ ~error /\ N > 0

\* largest scrollTop the element can have: scrollHeight - clientHeight
MaxScrollTop == Max(0, TotalHeight - ContainerHeight)

\* indices that Array.slice(begin, end) takes of an array of length len
\* (begin, end >= 0)
SliceIndices(begin, end, len) == Min(begin, len) .. (Min(end, len) - 1)

\* visibleData, as the indices within the slice being viewed:
\* paginatedData.slice(virtualStartIndex, virtualEndIndex) and
\* data.slice(startIndex, endIndex + 1)
visibleData ==
    IF table = "paged"
      THEN SliceIndices(virtualStartIndex, virtualEndIndex, PaginatedLength)
      ELSE SliceIndices(V2StartIndex, V2EndIndex + 1, N)

\* the row of record id is materialized by the render
Rendered(id) ==
    /\ Mounted
    /\ FindIndex(id) >= 0
    /\ (FindIndex(id) - SliceBase) \in visibleData

EffectsIdle == selEffect = "idle" /\ ~parentEffectPending

\* nothing is left to run: the next thing to happen is a user interaction
\* (the queued scroll event of a container is dispatched before it)
Settled == EffectsIdle /\ ~scrollEventPending

Event(kind, arg) ==
    [kind |-> kind, arg |-> arg,
     from |-> IF kind = "select" THEN currentPage ELSE 0]


(***************************************************************************)
(* The DOM after a commit                                                  *)
(***************************************************************************)

\* The scroll container after the render is committed.  domReq is its
\* scrollTop after the handler's own scrollTo calls.  A container that is
\* created by this commit starts at 0 and has no event queued; one that
\* stays has its scrollTop clamped to the new scrollable extent, and a
\* scroll event is queued when its scrollTop changed.
DomCommit(domReq, remount) ==
    LET fresh == remount \/ ~Mounted \/ ~Mounted'
        dom == IF fresh THEN 0 ELSE Min(domReq, MaxScrollTop')
    IN  /\ domScrollTop' = dom
        /\ scrollEventPending' =
              IF fresh THEN FALSE ELSE (scrollEventPending \/ dom # domScrollTop)

\* element.scrollTo({top}) on the rendered container
ScrollTo(top) ==
    LET dom == Min(Max(0, top), MaxScrollTop)
    IN  /\ domScrollTop' = dom
        /\ scrollEventPending' = (scrollEventPending \/ dom # domScrollTop)

\* the table effect is enabled: effects of a commit run child first
SelEffectEnabled ==
    selEffect = "due" \/ (selEffect = "next" /\ ~parentEffectPending)

(***************************************************************************)
(* Store (useEarthquakeStore), as the tables' parents see it               *)
(***************************************************************************)

\* a store update reaches the parent: new props for the table, which is
\* unmounted while the parent shows its own spinner or error
StoreUpdate(n, l, e, dataChanged) ==
    /\ rawN' = n
    /\ loading' = l
    /\ error' = e
    /\ UNCHANGED << inst, minMagnitude, filteredData, sortField,
                    sortDirection, selectedEarthquake >>
    /\ parentEffectPending' = (table = "v2" /\ dataChanged)
    /\ IF ~ComponentMounted'
         THEN currentPage' = 1 /\ scrollTop' = 0 /\ selEffect' = "idle"
         ELSE IF ~ComponentMounted
         THEN currentPage' = 1 /\ scrollTop' = 0 /\ selEffect' = "due"
         ELSE /\ UNCHANGED << currentPage, scrollTop >>
              /\ selEffect' = IF dataChanged THEN "due" ELSE selEffect
    /\ DomCommit(domScrollTop, ~ComponentMounted)
    /\ lastEvent' = Event("load", 0)

\* fetchData / refreshData: set({ loading: true, error: null })
StartLoad ==
    /\ Settled
    /\ ~loading
    /\ StoreUpdate(rawN, TRUE, FALSE, FALSE)
    /\ UNCHANGED << stream, ingest >>

\* result.success: set({ data: result.data, loading: false, error: null })
LoadSuccess(n) ==
    /\ Settled
    /\ loading
    /\ StoreUpdate(n, FALSE, FALSE, TRUE)
    /\ UNCHANGED << stream, ingest >>

\* failure: set({ loading: false, error })
LoadFail ==
    /\ Settled
    /\ loading
    /\ StoreUpdate(rawN, FALSE, TRUE, FALSE)
    /\ UNCHANGED << stream, ingest >>

(***************************************************************************)
(* SelectionProvider and the views that select                             *)
(***************************************************************************)

\* setSelectedEarthquake that keeps a selection once one is made
setSelectedEarthquakeSticky(rec) ==
    /\ selectedEarthquake' =
          IF selectedEarthquake = NoSelection \/ rec = NoSelection
            THEN rec ELSE selectedEarthquake
    /\ selEffect' =
          IF selectedEarthquake' # selectedEarthquake /\ ComponentMounted
            THEN "due" ELSE "idle"
    /\ UNCHANGED << inst, rawN, loading, error, minMagnitude, filteredData,
                    sortField, sortDirection, currentPage, scrollTop,
                    domScrollTop, scrollEventPending, parentEffectPending >>

\* setSelectedEarthquake(earthquake): setSelectedEarthquakeState(earthquake)
setSelectedEarthquake(rec) ==
    /\ selectedEarthquake' = rec
    /\ selEffect' =
          IF rec # selectedEarthquake /\ ComponentMounted THEN "due" ELSE "idle"
    /\ UNCHANGED << inst, rawN, loading, error, minMagnitude, filteredData,
                    sortField, sortDirection, currentPage, scrollTop,
                    domScrollTop, scrollEventPending, parentEffectPending >>

\* TableRow onClick -> handleRowClick(earthquake), either table
handleRowClick(id) ==
    /\ Settled
    /\ Rendered(id)
    /\ setSelectedEarthquake([id |-> id, via |-> "table"])
    /\ lastEvent' = Event("select", id)
    /\ UNCHANGED << stream, ingest >>

\* EarthquakeScatterPlot.handleDataPointClick({ payload })
handleDataPointClick(id) ==
    /\ Settled
    /\ id <= rawN
    /\ setSelectedEarthquake([id |-> id, via |-> "chart"])
    /\ lastEvent' = Event("select", id)
    /\ UNCHANGED << stream, ingest >>

\* a clearSelection that also sends the table back to the top of page 1
clearSelectionToTop ==
    /\ Settled
    /\ selectedEarthquake' = NoSelection
    /\ currentPage' = 1
    /\ scrollTop' = 0
    /\ selEffect' = "idle"
    /\ UNCHANGED << inst, rawN, loading, error, minMagnitude, filteredData,
                    sortField, sortDirection, parentEffectPending >>
    /\ DomCommit(0, FALSE)
    /\ lastEvent' = Event("clear", 0)
    /\ UNCHANGED << stream, ingest >>

\* clearSelection()
clearSelection ==
    /\ Settled
    /\ setSelectedEarthquake(NoSelection)
    /\ lastEvent' = Event("clear", 0)
    /\ UNCHANGED << stream, ingest >>

(***************************************************************************)
(* Scrolling                                                               *)
(***************************************************************************)

\* the user scrolls the container
UserScroll(top) ==
    /\ Settled
    /\ Mounted
    /\ top <= MaxScrollTop
    /\ top # domScrollTop
    /\ domScrollTop' = top
    /\ scrollEventPending' = TRUE
    /\ lastEvent' = Event("scroll", 0)
    /\ UNCHANGED << inst, rawN, loading, error, minMagnitude, filteredData,
                    sortField, sortDirection, selectedEarthquake, currentPage,
                    scrollTop, selEffect, parentEffectPending, stream, ingest >>

\* onScroll -> handleScroll: setScrollTop(event.currentTarget.scrollTop)
handleScroll ==
    /\ EffectsIdle
    /\ scrollEventPending
    /\ scrollTop' = domScrollTop
    /\ scrollEventPending' = FALSE
    /\ UNCHANGED << inst, rawN, loading, error, minMagnitude, filteredData,
                    sortField, sortDirection, selectedEarthquake, currentPage,
                    domScrollTop, selEffect, parentEffectPending, lastEvent,
                    stream, ingest >>


(***************************************************************************)
(* EarthquakeTableContainer and VirtualizedTable (paged)                   *)
(***************************************************************************)

\* a new VirtualizedTable instance (key={tableKey} changed)
RemountTable ==
    /\ currentPage' = 1
    /\ scrollTop' = 0
    /\ selEffect' = "due"

\* TableHeader click -> VirtualizedTable.handleSort(field):
\* onSort(field) is EarthquakeTableContainer.handleSort
PagedHandleSort(field) ==
    /\ table = "paged"
    /\ Settled
    /\ Mounted
    /\ IF sortField = field
         THEN /\ sortDirection' = IF sortDirection = "asc" THEN "desc" ELSE "asc"
              /\ UNCHANGED sortField
         ELSE /\ sortField' = field
              /\ sortDirection' = "asc"
    /\ currentPage' = 1
    /\ scrollTop' = 0
    /\ selEffect' = "due"
    /\ UNCHANGED << inst, rawN, loading, error, minMagnitude, filteredData,
                    selectedEarthquake, parentEffectPending, stream, ingest >>
    /\ DomCommit(domScrollTop, FALSE)
    /\ lastEvent' = Event("sort", 0)

\* handlePageChange in a table whose selection effect does not depend on
\* currentPage
handlePageChangeNoEffect(page) ==
    /\ currentPage' = page
    /\ scrollTop' = 0
    /\ selEffect' = "idle"
    /\ UNCHANGED << inst, rawN, loading, error, minMagnitude, filteredData,
                    sortField, sortDirection, selectedEarthquake,
                    parentEffectPending, stream, ingest >>
    /\ DomCommit(0, FALSE)
    /\ lastEvent' = Event("page", page)

\* handlePageChange(page)
handlePageChange(page) ==
    /\ currentPage' = page
    /\ scrollTop' = 0
    /\ selEffect' = IF page # currentPage THEN "due" ELSE "idle"
    /\ UNCHANGED << inst, rawN, loading, error, minMagnitude, filteredData,
                    sortField, sortDirection, selectedEarthquake,
                    parentEffectPending, stream, ingest >>
    /\ DomCommit(0, FALSE)
    /\ lastEvent' = Event("page", page)

\* "First page" button: onClick={() => handlePageChange(1)}
FirstPage ==
    /\ table = "paged" /\ Settled /\ Mounted
    /\ currentPage # 1
    /\ handlePageChange(1)

\* handlePreviousPage
handlePreviousPage ==
    /\ table = "paged" /\ Settled /\ Mounted
    /\ currentPage # 1
    /\ currentPage > 1
    /\ handlePageChange(currentPage - 1)

\* handleNextPage
handleNextPage ==
    /\ table = "paged" /\ Settled /\ Mounted
    /\ currentPage # totalPages
    /\ currentPage < totalPages
    /\ handlePageChange(currentPage + 1)

\* "Last page" button: onClick={() => handlePageChange(totalPages)}
LastPage ==
    /\ table = "paged" /\ Settled /\ Mounted
    /\ currentPage # totalPages
    /\ handlePageChange(totalPages)

\* magnitude <select> onChange: setMinMagnitude(...)
SetMinMagnitude(m) ==
    /\ table = "paged"
    /\ Settled
    /\ ComponentMounted
    /\ m # minMagnitude
    /\ minMagnitude' = m
    /\ parentEffectPending' = TRUE
    /\ selEffect' = "due"
    /\ UNCHANGED << inst, rawN, loading, error, filteredData, sortField,
                    sortDirection, selectedEarthquake, currentPage, scrollTop,
                    stream, ingest >>
    /\ DomCommit(domScrollTop, FALSE)
    /\ lastEvent' = Event("filter", m)

\* "Clear filters" button: setSearchTerm(''); setMinMagnitude(null);
\* resetTable()
ClearFilters ==
    /\ table = "paged"
    /\ Settled
    /\ ComponentMounted
    /\ minMagnitude # 0
    /\ minMagnitude' = 0
    /\ parentEffectPending' = TRUE
    /\ RemountTable
    /\ UNCHANGED << inst, rawN, loading, error, filteredData, sortField,
                    sortDirection, selectedEarthquake, stream, ingest >>
    /\ DomCommit(0, TRUE)
    /\ lastEvent' = Event("filter", 0)

\* useEffect(() => { if (searchTerm || minMagnitude !== null) resetTable() },
\*           [searchTerm, minMagnitude])
ContainerFilterEffect ==
    /\ table = "paged"
    /\ parentEffectPending
    /\ selEffect # "due"
    /\ parentEffectPending' = FALSE
    /\ UNCHANGED << inst, rawN, loading, error, minMagnitude, filteredData,
                    sortField, sortDirection, selectedEarthquake, lastEvent,
                    stream, ingest >>
    /\ IF minMagnitude # 0
         THEN /\ RemountTable
              /\ DomCommit(0, TRUE)
         ELSE UNCHANGED << currentPage, scrollTop, selEffect, domScrollTop,
                           scrollEventPending >>

\* top of the scrollTo that centres row indexInPage, in whole pixels: the
\* half pixel of an odd container only occurs where the container cannot
\* scroll at all
PagedTargetScrollTop(indexInPage) ==
    Max(0, 2 * indexInPage * itemHeight - PagedContainerHeight + itemHeight) \div 2

\* TargetPage with pages counted from 0
TargetPageZeroBased(selectedIndex) == Floor(selectedIndex, pageSize)

\* const targetPage = Math.floor(selectedIndex / pageSize) + 1
TargetPage(selectedIndex) == Floor(selectedIndex, pageSize) + 1

\* the selection effect of VirtualizedTable
PagedSelectionEffect ==
    /\ table = "paged"
    /\ SelEffectEnabled
    /\ UNCHANGED << inst, rawN, loading, error, minMagnitude, filteredData,
                    sortField, sortDirection, selectedEarthquake,
                    parentEffectPending, lastEvent, stream, ingest >>
    /\ LET selectedIndex == FindIndex(selectedEarthquake.id)
           targetPage == TargetPage(selectedIndex)
           indexInPage == selectedIndex % pageSize
       IN  IF selectedEarthquake.id # NoRecord /\ selectedIndex >= 0
             THEN IF targetPage # currentPage
                    THEN /\ currentPage' = targetPage
                         /\ scrollTop' = 0
                         /\ selEffect' =
                               IF parentEffectPending THEN "next" ELSE "due"
                         /\ DomCommit(IF Mounted THEN 0 ELSE domScrollTop, FALSE)
                    ELSE /\ UNCHANGED << currentPage, scrollTop >>
                         /\ selEffect' = "idle"
                         /\ IF Mounted
                              THEN ScrollTo(PagedTargetScrollTop(indexInPage))
                              ELSE UNCHANGED << domScrollTop, scrollEventPending >>
             ELSE /\ UNCHANGED << currentPage, scrollTop, domScrollTop,
                                  scrollEventPending >>
                  /\ selEffect' = "idle"

(***************************************************************************)
(* App and VirtualizedTableV2                                              *)
(***************************************************************************)

\* TableHeader click -> VirtualizedTableV2.handleSort(field): onSort(field)
\* is the inline handler of App
V2HandleSort(field) ==
    /\ table = "v2"
    /\ Settled
    /\ Mounted
    /\ IF field = sortField
         THEN /\ sortDirection' = IF sortDirection = "asc" THEN "desc" ELSE "asc"
              /\ UNCHANGED sortField
         ELSE /\ sortField' = field
              /\ sortDirection' = "desc"
    /\ scrollTop' = 0
    /\ selEffect' = "due"
    /\ UNCHANGED << inst, rawN, loading, error, minMagnitude, filteredData,
                    selectedEarthquake, currentPage, parentEffectPending,
                    stream, ingest >>
    /\ DomCommit(0, FALSE)
    /\ lastEvent' = Event("sort", 0)

\* <DataFilters onFilterChange={setFilteredData}>: the filter keeps the
\* records 1..n of rawData
FilterChange(n) ==
    /\ table = "v2"
    /\ Settled
    /\ ComponentMounted
    /\ rawN > 0
    /\ n <= rawN
    /\ n # filteredData
    /\ filteredData' = n
    /\ selEffect' = "due"
    /\ UNCHANGED << inst, rawN, loading, error, minMagnitude, sortField,
                    sortDirection, selectedEarthquake, currentPage, scrollTop,
                    parentEffectPending, stream, ingest >>
    /\ DomCommit(domScrollTop, FALSE)
    /\ lastEvent' = Event("filter", n)

\* useEffect(() => { setFilteredData(rawData) }, [rawData])
AppSyncEffect ==
    /\ table = "v2"
    /\ parentEffectPending
    /\ selEffect # "due"
    /\ parentEffectPending' = FALSE
    /\ filteredData' = rawN
    /\ selEffect' = IF ComponentMounted THEN "due" ELSE "idle"
    /\ UNCHANGED << inst, rawN, loading, error, minMagnitude, sortField,
                    sortDirection, selectedEarthquake, currentPage, scrollTop,
                    lastEvent, stream, ingest >>
    /\ DomCommit(domScrollTop, FALSE)

\* the "auto-scroll to selected item" effect of VirtualizedTableV2
V2SelectionEffect ==
    /\ table = "v2"
    /\ SelEffectEnabled
    /\ selEffect' = "idle"
    /\ LET selectedIndex == FindIndex(selectedEarthquake.id)
           targetScrollTop == selectedIndex * itemHeight
           currentScrollTop == domScrollTop
           clientHeight == V2ContainerHeight
       IN  IF /\ selectedEarthquake.id # NoRecord
              /\ Mounted
              /\ selectedIndex >= 0
              /\ \/ targetScrollTop < currentScrollTop
                 \/ targetScrollTop > currentScrollTop + clientHeight - itemHeight
             THEN ScrollTo(Max(0, targetScrollTop - clientHeight \div 2))
             ELSE UNCHANGED << domScrollTop, scrollEventPending >>
    /\ UNCHANGED << inst, rawN, loading, error, minMagnitude, filteredData,
                    sortField, sortDirection, selectedEarthquake, currentPage,
                    scrollTop, parentEffectPending, lastEvent, stream, ingest >>

(***************************************************************************)
(* The tables: specification                                               *)
(***************************************************************************)

TableInit ==
    /\ inst \in Instances
    /\ rawN = 0
    /\ loading = FALSE
    /\ error = FALSE
    /\ minMagnitude = 0
    /\ filteredData = 0
    /\ sortField = IF inst.table = "paged" THEN "time" ELSE "magnitude"
    /\ sortDirection = "desc"
    /\ selectedEarthquake = NoSelection
    /\ currentPage = 1
    /\ scrollTop = 0
    /\ domScrollTop = 0
    /\ scrollEventPending = FALSE
    /\ selEffect = "idle"
    /\ parentEffectPending = FALSE
    /\ lastEvent = [kind |-> "none", arg |-> 0, from |-> 0]

(***************************************************************************)
(* useStreamingEarthquakeData                                              *)
(***************************************************************************)

\* loadPage calls of one session
MaxRequests == 2

\* numbers of valid rows of the source
SourceSizes == {12, 247}

\* numbers of rows of the source that fail validateRawEarthquakeData
RejectedSizes == {0, 5}

\* pages the owner asks for
PageRequests == {0, 2, 60}

\* default of options.pageSize
StreamPageSize == 5

\* rows between two onChunk calls of parseCsvStreamingFromUrl
ChunkRows == 100

NoData == [page |-> 0, len |-> 0, req |-> 0]

\* a number of the hook's state: a finite integer, or Infinity
Finite(v) == [inf |-> FALSE, val |-> v]

Infinity == [inf |-> TRUE, val |-> 0]

\* Math.round(a / b * 100); a / 0 is Infinity for a > 0
RoundPercent(a, b) ==
    IF b = 0 THEN Infinity ELSE Finite(Floor(2 * a * 100 + b, 2 * b))

\* totalPages: Math.ceil(state.totalRows / pageSize)
StreamTotalPages == Ceil(state.totalRows, StreamPageSize)

\* rows of the requested page among the first rowCount valid rows:
\* rowCount > startIndex && rowCount <= endIndex
PageRows(page, rowCount) ==
    LET startIndex == (page - 1) * StreamPageSize
        endIndex == page * StreamPageSize
    IN  Max(0, Min(rowCount, endIndex) - startIndex)

\* a request whose callbacks go on after its terminal callback
Started(k) == k \in 1..Len(requests)

\* request k is between Papa.parse(url, ...) and its complete or error
\* callback
InFlight(k) == k \in 1..Len(requests) /\ requests[k].status = "pending"

\* loadPage(page): the previous AbortController is aborted, but its signal
\* is not given to the parser, so the previous request runs on
loadPage(page) ==
    /\ Len(requests) < MaxRequests
    /\ requests' = Append(requests, [page |-> page, rowCount |-> 0, status |-> "pending",
                                     events |-> << >>])
    /\ state' = [state EXCEPT !.loading = TRUE, !.error = FALSE,
                              !.currentPage = page]
    /\ UNCHANGED << sourceRows, rejectedRows >>

\* the hook's owner calls loadPage(page)
CallLoadPage(page) ==
    /\ loadPage(page)
    /\ lastCall' = [op |-> "loadPage", arg |-> page, ran |-> TRUE]
    /\ UNCHANGED << tableVars, ingest >>

\* loadNextPage()
loadNextPage ==
    /\ Len(requests) < MaxRequests
    /\ IF ~state.loading /\ state.hasMore
         THEN loadPage(state.currentPage + 1)
         ELSE UNCHANGED << state, requests, sourceRows, rejectedRows >>
    /\ lastCall' = [op |-> "loadNextPage", arg |-> 0,
                    ran |-> ~state.loading /\ state.hasMore]
    /\ UNCHANGED << tableVars, ingest >>

\* loadPreviousPage()
loadPreviousPage ==
    /\ Len(requests) < MaxRequests
    /\ IF ~state.loading /\ state.currentPage > 1
         THEN loadPage(state.currentPage - 1)
         ELSE UNCHANGED << state, requests, sourceRows, rejectedRows >>
    /\ lastCall' = [op |-> "loadPreviousPage", arg |-> 0,
                    ran |-> ~state.loading /\ state.currentPage > 1]
    /\ UNCHANGED << tableVars, ingest >>

\* loadFirstPage()
loadFirstPage ==
    /\ Len(requests) < MaxRequests
    /\ IF ~state.loading
         THEN loadPage(1)
         ELSE UNCHANGED << state, requests, sourceRows, rejectedRows >>
    /\ lastCall' = [op |-> "loadFirstPage", arg |-> 0, ran |-> ~state.loading]
    /\ UNCHANGED << tableVars, ingest >>

\* goToPage(page)
goToPage(page) ==
    /\ Len(requests) < MaxRequests
    /\ IF ~state.loading /\ page > 0
         THEN loadPage(page)
         ELSE UNCHANGED << state, requests, sourceRows, rejectedRows >>
    /\ lastCall' = [op |-> "goToPage", arg |-> page,
                    ran |-> ~state.loading /\ page > 0]
    /\ UNCHANGED << tableVars, ingest >>

\* refresh()
refresh ==
    /\ loadPage(state.currentPage)
    /\ lastCall' = [op |-> "refresh", arg |-> 0, ran |-> TRUE]
    /\ UNCHANGED << tableVars, ingest >>

\* Papa step callbacks of request k up to the next multiple of ChunkRows,
\* then options.onChunk(rows, rowCount)
onChunk(k) ==
    /\ InFlight(k)
    /\ requests[k].rowCount + ChunkRows <= sourceRows
    /\ LET rowCount == requests[k].rowCount + ChunkRows
       IN  /\ requests' = [requests EXCEPT
                             ![k].rowCount = rowCount,
                             ![k].events = Append(requests[k].events, "chunk")]
           /\ state' = [state EXCEPT
                          !.progress = RoundPercent(rowCount, state.totalRows)]
    /\ UNCHANGED << sourceRows, rejectedRows, lastCall, tableVars, ingest >>

\* Papa complete callback of request k: options.onComplete(rowCount), then
\* resolve(...) and the rest of loadPage after the await
onComplete(k) ==
    /\ InFlight(k)
    /\ requests[k].rowCount + ChunkRows > sourceRows
    /\ LET page == requests[k].page
           endIndex == page * StreamPageSize
       IN  /\ requests' = [requests EXCEPT ![k].rowCount = sourceRows,
                                           ![k].status = "complete",
                                           ![k].events =
                                              Append(requests[k].events, "complete")]
           /\ state' = [state EXCEPT
                          !.data = [page |-> page,
                                    len |-> PageRows(page, sourceRows),
                                    req |-> k],
                          !.totalRows = sourceRows,
                          !.hasMore = sourceRows > endIndex,
                          !.loading = FALSE,
                          !.error = FALSE,
                          !.progress = Finite(100)]
    /\ UNCHANGED << sourceRows, rejectedRows, lastCall, tableVars, ingest >>

\* Papa error callback of request k: options.onError(parseError), then
\* reject(parseError) and the catch block of loadPage
onError(k) ==
    /\ InFlight(k)
    /\ requests' = [requests EXCEPT
                      ![k].status = "failed",
                      ![k].events = Append(requests[k].events, "failed")]
    /\ state' = [state EXCEPT !.loading = FALSE, !.error = TRUE,
                              !.progress = Finite(0)]
    /\ UNCHANGED << sourceRows, rejectedRows, lastCall, tableVars, ingest >>

StreamInit ==
    /\ state = [data |-> NoData, loading |-> FALSE, error |-> FALSE,
                totalRows |-> 0, currentPage |-> 1, hasMore |-> FALSE,
                progress |-> Finite(0)]
    /\ requests = << >>
    /\ sourceRows = 247
    /\ rejectedRows = 5
    /\ lastCall = [op |-> "none", arg |-> 0, ran |-> FALSE]

(***************************************************************************)
(* The feed: raw rows, parseCsvData, transformEarthquakeData               *)
(***************************************************************************)

\* the numbers of rows of the feeds
FeedLengths == {0, 1, 2}

\* fetchData / refreshData calls of one session
MaxCalls == 2

\* the calls of a session in which the cache is read again
CacheCalls == 3

\* default of the parameter retries of fetchEarthquakeData
Retries == 3

\* a well-formed row of the CSV, as Papa yields it with header: true and
\* every value trimmed; time and updated are instants, 0 for an empty
\* field; fields is "mismatch" for a row whose number of fields differs
\* from the header's (Papa reports a FieldMismatch error)
GoodRow ==
    [id |-> "a", time |-> 1, latitude |-> "45", longitude |-> "10",
     mag |-> "5", updated |-> 1, fields |-> "ok"]

\* the rows a feed is made of: three good rows (two revisions of record a,
\* and record b), and rows without id, without time, with a latitude that
\* is no number, with a latitude out of range, and a truncated row
RawRows ==
    { GoodRow,
      [GoodRow EXCEPT !.updated = 2],
      [GoodRow EXCEPT !.id = "b"],
      [GoodRow EXCEPT !.id = ""],
      [GoodRow EXCEPT !.time = 0],
      [GoodRow EXCEPT !.latitude = "abc"],
      [GoodRow EXCEPT !.latitude = "95"],
      [GoodRow EXCEPT !.id = "", !.updated = 0, !.fields = "mismatch"] }

Feeds == UNION { [1..n -> RawRows] : n \in FeedLengths }

\* what one attempt to GET the CSV ends in: the CSV text, an empty body,
\* HTTP 404, or a timeout (any other network error takes the same path)
Outcomes == {"ok", "empty", "http404", "timeout"}

\* parseFloat of the field values that occur
ParseFloat(str) ==
    CASE str = "45" -> [nan |-> FALSE, val |-> 45]
      [] str = "95" -> [nan |-> FALSE, val |-> 95]
      [] str = "10" -> [nan |-> FALSE, val |-> 10]
      [] str = "5" -> [nan |-> FALSE, val |-> 5]
      [] OTHER -> [nan |-> TRUE, val |-> 0]

Abs(x) == IF x < 0 THEN -x ELSE x

\* row.id && row.time && row.latitude && row.longitude && row.mag
HasRequiredFields(row) ==
    /\ row.id # "" /\ row.time # 0
    /\ row.latitude # "" /\ row.longitude # "" /\ row.mag # ""

\* parseCsvData(csvText) of a non-empty text with these rows: the rows
\* returned, or the CsvParsingError thrown
parseCsvData(rows) ==
    LET validRows == SelectSeq(rows, HasRequiredFields)
    IN  IF \E i \in 1..Len(rows) : rows[i].fields = "mismatch"
          THEN [ok |-> FALSE, rows |-> << >>, error |-> "PARSING_ERROR"]
        ELSE IF Len(rows) = 0 \/ Len(validRows) = 0
          THEN [ok |-> FALSE, rows |-> << >>, error |-> "NO_DATA"]
        ELSE [ok |-> TRUE, rows |-> validRows, error |-> ""]

\* transformEarthquakeData(raw) returns a record, not null
Transformable(raw) ==
    LET latitude == ParseFloat(raw.latitude)
        longitude == ParseFloat(raw.longitude)
        magnitude == ParseFloat(raw.mag)
    IN  /\ ~(latitude.nan \/ longitude.nan \/ magnitude.nan)
        /\ ~(Abs(latitude.val) > 90 \/ Abs(longitude.val) > 180)

\* the record transformEarthquakeData(raw) returns
transformEarthquakeData(raw) ==
    [id |-> raw.id, time |-> raw.time,
     latitude |-> ParseFloat(raw.latitude).val,
     longitude |-> ParseFloat(raw.longitude).val,
     magnitude |-> ParseFloat(raw.mag).val,
     updated |-> IF raw.updated # 0 THEN raw.updated ELSE raw.time]

\* the loop over rawData: the transformed rows, nulls left out
TransformAll(rows) ==
    LET kept == SelectSeq(rows, Transformable)
    IN  [i \in 1..Len(kept) |-> transformEarthquakeData(kept[i])]

\* new Date(): the number of calls that have returned so far, plus one
Now == 1 + Cardinality({k \in 1..Len(calls) : calls[k].status # "running"})

\* the FetchEarthquakeResult of an attempt that got the CSV text and
\* parsed it; all rows carry the same time, so the sort keeps their order
FetchSuccess(rows) ==
    LET rawData == parseCsvData(rows).rows
        processedData == TransformAll(rawData)
    IN  [data |-> processedData, success |-> TRUE, error |-> "",
         lastFetched |-> Now, totalRecords |-> Len(rawData),
         validRecords |-> Len(processedData)]

\* the FetchEarthquakeResult after the loop ("All attempts failed")
FetchFailure(reason) ==
    [data |-> << >>, success |-> FALSE, error |-> reason,
     lastFetched |-> Now, totalRecords |-> 0, validRecords |-> 0]

(***************************************************************************)
(* useEarthquakeStore, fetchEarthquakeData and getCachedEarthquakeData     *)
(***************************************************************************)

NoCache == [data |-> << >>, timestamp |-> 0]

\* set({ data, loading: false, error: null, lastFetched, totalRecords,
\*       validRecords }) of the success branch
SetSuccess(result) ==
    store' = [data |-> result.data, loading |-> FALSE, error |-> "",
              lastFetched |-> result.lastFetched,
              totalRecords |-> result.totalRecords,
              validRecords |-> result.validRecords]

\* a failure branch that also takes over the result's data and counts
SetFailureFromResult(result) ==
    store' = [store EXCEPT !.data = result.data, !.loading = FALSE,
                           !.error = result.error,
                           !.totalRecords = result.totalRecords,
                           !.validRecords = result.validRecords]

\* set({ loading: false, error: result.error || '...' }) of the else branch
SetFailure(result) ==
    store' = [store EXCEPT !.loading = FALSE, !.error = result.error]

\* a call starts: set({ loading: true, error: null })
StartCall(op, via) ==
    /\ store' = [store EXCEPT !.loading = TRUE, !.error = ""]
    /\ calls' = Append(calls, [op |-> op, via |-> via, attempt |-> 1,
                               status |-> "running", reason |-> "",
                               records |-> 0])
    /\ UNCHANGED << source, cachedData, posted, manager, apiCall, tableVars,
                    stream >>

\* fetchData(), up to the await inside getCachedEarthquakeData: the cache
\* answers when it holds data younger than CACHE_DURATION
fetchData(cacheFresh) ==
    /\ ~store.loading
    /\ cacheFresh => cachedData # NoCache
    /\ StartCall("fetchData", IF cacheFresh THEN "cache" ELSE "network")

\* refreshData(), up to the await of fetchEarthquakeData
refreshData == StartCall("refreshData", "network")

Running(k) == k \in 1..Len(calls) /\ calls[k].status = "running"

\* the call returns result to the store action that awaits it
Return(k, result) ==
    /\ calls' = [calls EXCEPT
                   ![k].status = IF result.success THEN "succeeded" ELSE "failed",
                   ![k].reason = result.error,
                   ![k].records = Len(result.data)]
    /\ IF result.success THEN SetSuccess(result) ELSE SetFailure(result)
    /\ cachedData' =
          IF calls[k].op = "fetchData" /\ result.success /\ Len(result.data) > 0
            THEN [data |-> result.data, timestamp |-> result.lastFetched]
            ELSE cachedData

\* getCachedEarthquakeData answers from the cache
CacheHit(k) ==
    /\ Running(k)
    /\ calls[k].via = "cache"
    /\ Return(k, [data |-> cachedData.data, success |-> TRUE, error |-> "",
                  lastFetched |-> cachedData.timestamp,
                  totalRecords |-> Len(cachedData.data),
                  validRecords |-> Len(cachedData.data)])
    /\ UNCHANGED << source, posted, manager, apiCall, tableVars, stream >>

\* a loop that never reaches its last pass
NeverLastAttempt(k) == FALSE

\* attempt <= retries fails after this pass
LastAttempt(k) == calls[k].attempt = Retries

\* one pass of the retry loop of fetchEarthquakeData in call k, and what
\* follows when the loop ends
Attempt(k, outcome) ==
    /\ Running(k)
    /\ calls[k].via = "network"
    /\ LET parsed == parseCsvData(source)
       IN  IF outcome = "ok" /\ parsed.ok
             THEN Return(k, FetchSuccess(source))
           ELSE IF outcome = "ok"
             THEN Return(k, FetchFailure(parsed.error))
           ELSE IF outcome = "http404" \/ LastAttempt(k)
             THEN Return(k, FetchFailure(outcome))
           ELSE /\ calls' = [calls EXCEPT ![k].attempt = calls[k].attempt + 1]
                /\ UNCHANGED << store, cachedData >>
    /\ UNCHANGED << source, posted, manager, apiCall, tableVars, stream >>

(***************************************************************************)
(* The data worker: handleParseCSV                                         *)
(***************************************************************************)

\* `${row.time}_${index}` for the rows that reach it (time is 1)
SyntheticId(index) == << "1_0", "1_1", "1_2", "1_3" >>[index + 1]

\* the transform callback on latitude and longitude, then
\* parseFloat(row.latitude) || 0
WorkerNumber(str) == IF ParseFloat(str).nan THEN 0 ELSE ParseFloat(str).val

\* the object the map callback of the chunk handler builds from row
\* number index (from 0) of the chunk
WorkerRecord(row, index) ==
    [id |-> IF row.id # "" THEN row.id ELSE SyntheticId(index),
     time |-> row.time,
     latitude |-> WorkerNumber(row.latitude),
     longitude |-> WorkerNumber(row.longitude),
     magnitude |-> WorkerNumber(row.mag),
     updated |-> IF row.updated # 0 THEN row.updated ELSE row.time]

\* magnitude > 0 && latitude !== 0 && longitude !== 0
WorkerKeeps(earthquake) ==
    earthquake.magnitude > 0 /\ earthquake.latitude # 0 /\ earthquake.longitude # 0

\* the messages handleParseCSV posts for a CSV of these rows: Papa parses
\* the string in one chunk; new Date(row.time).toISOString() throws on a
\* row without time, which ends the parse in the catch block of onmessage
ParseCSVMessages(rows) ==
    LET mapped == [i \in 1..Len(rows) |-> WorkerRecord(rows[i], i - 1)]
        processedRows == SelectSeq(mapped, WorkerKeeps)
    IN  IF \E i \in 1..Len(rows) : rows[i].time = 0
          THEN << [type |-> "ERROR", data |-> << >>] >>
        ELSE (IF Len(processedRows) > 0
                THEN << [type |-> "CHUNK_PROCESSED", data |-> processedRows] >>
                ELSE << >>)
             \o << [type |-> "PARSE_COMPLETE", data |-> << >>] >>

\* self.onmessage({ type: 'PARSE_CSV' }) on the feed
handleParseCSV ==
    /\ posted = << >>
    /\ posted' = ParseCSVMessages(source)
    /\ UNCHANGED << source, store, cachedData, calls, manager, apiCall,
                    tableVars, stream >>

(***************************************************************************)
(* DataWorkerManager: parseCSV, filterData, sortData and the two onmessage *)
(* handlers, of the manager and of the worker                              *)
(***************************************************************************)

\* promises one manager hands out
MaxPromises == 2

\* the csvContent of the parseCSV calls: record a, record b, and a row
\* without time, on which the worker answers ERROR
WorkerCsvs ==
    { << GoodRow >>,
      << [GoodRow EXCEPT !.id = "b"] >>,
      << [GoodRow EXCEPT !.time = 0] >> }

\* the data of the filterData and sortData calls: record a of magnitude 5
\* before record b of magnitude 3
WorkerData ==
    << WorkerRecord(GoodRow, 0),
       [WorkerRecord(GoodRow, 0) EXCEPT !.id = "b", !.magnitude = 3] >>

\* the filters of the filterData calls: minMagnitude alone is defined
Filters == { [minMagnitude |-> m] : m \in {0, 4} }

Directions == {"asc", "desc"}

MessageTypes ==
    {"CHUNK_PROCESSED", "PARSE_COMPLETE", "FILTER_COMPLETE", "SORT_COMPLETE",
     "ERROR"}

\* no callback registered under a message type
NoCallback == 0

\* the manager after its constructor; worker is FALSE when new Worker threw
NewManager(worker) ==
    [worker |-> worker,
     promises |-> << >>,
     callbacks |-> [type \in MessageTypes |-> NoCallback],
     toWorker |-> << >>,
     toMain |-> << >>]

\* data.filter(...) of handleFilterData and of the fallback
FilterByMagnitude(data, filters) ==
    LET Passes(earthquake) == ~(earthquake.magnitude < filters.minMagnitude)
    IN  SelectSeq(data, Passes)

\* the comparator of handleSortData and of the fallback, on magnitude:
\* TRUE when a must not come after b
InOrder(a, b, direction) ==
    IF direction = "asc" THEN a.magnitude <= b.magnitude
    ELSE a.magnitude >= b.magnitude

\* one record put into a sorted list, behind the records it equals
RECURSIVE Insert(_, _, _)
Insert(sorted, earthquake, direction) ==
    IF sorted = << >> THEN << earthquake >>
    ELSE IF InOrder(Head(sorted), earthquake, direction)
      THEN << Head(sorted) >> \o Insert(Tail(sorted), earthquake, direction)
    ELSE << earthquake >> \o sorted

\* [...data].sort(comparator): a stable sort
RECURSIVE SortByMagnitude(_, _)
SortByMagnitude(data, direction) ==
    IF data = << >> THEN << >>
    ELSE Insert(SortByMagnitude(SubSeq(data, 1, Len(data) - 1), direction),
                data[Len(data)], direction)

\* new Promise(...) of call op, with the callbacks it registers and the
\* message it posts
Call(op, input, types, message) ==
    /\ manager.worker
    /\ Len(manager.promises) < MaxPromises
    /\ manager' =
          [manager EXCEPT
             !.promises = Append(@, [op |-> op, input |-> input,
                                     status |-> "pending", allData |-> << >>,
                                     value |-> << >>]),
             !.callbacks = [type \in MessageTypes |->
                              IF type \in types THEN Len(manager.promises) + 1
                              ELSE @[type]],
             !.toWorker = Append(@, message)]
    /\ UNCHANGED << source, store, cachedData, calls, posted, apiCall,
                    tableVars, stream >>

\* a call on a manager without worker settles in the executor
CallWithoutWorker(op, input, status, value) ==
    /\ ~manager.worker
    /\ Len(manager.promises) < MaxPromises
    /\ manager' =
          [manager EXCEPT
             !.promises = Append(@, [op |-> op, input |-> input,
                                     status |-> status, allData |-> << >>,
                                     value |-> value])]
    /\ UNCHANGED << source, store, cachedData, calls, posted, apiCall,
                    tableVars, stream >>

\* the message types cleanup() of a call deletes
CleanupTypes(op) ==
    CASE op = "parseCSV" -> {"CHUNK_PROCESSED", "PARSE_COMPLETE", "ERROR"}
      [] op = "filterData" -> {"FILTER_COMPLETE", "ERROR"}
      [] op = "sortData" -> {"SORT_COMPLETE", "ERROR"}

\* parseCSV(csvContent)
parseCSV(csvContent) ==
    \/ Call("parseCSV", csvContent, CleanupTypes("parseCSV"),
            [type |-> "PARSE_CSV", payload |-> csvContent])
    \/ CallWithoutWorker("parseCSV", csvContent, "rejected", << >>)

\* filterData(data, filters)
filterData(data, filters) ==
    \/ Call("filterData", data, CleanupTypes("filterData"),
            [type |-> "FILTER_DATA",
             payload |-> [data |-> data, filters |-> filters]])
    \/ CallWithoutWorker("filterData", data, "resolved",
                         FilterByMagnitude(data, filters))

\* sortData(data, 'magnitude', direction)
sortData(data, direction) ==
    \/ Call("sortData", data, CleanupTypes("sortData"),
            [type |-> "SORT_DATA",
             payload |-> [data |-> data, direction |-> direction]])
    \/ CallWithoutWorker("sortData", data, "resolved",
                         SortByMagnitude(data, direction))

\* self.onmessage of the worker on the oldest message posted to it
WorkerOnMessage ==
    /\ manager.toWorker # << >>
    /\ LET message == Head(manager.toWorker)
           answer ==
             CASE message.type = "PARSE_CSV" -> ParseCSVMessages(message.payload)
               [] message.type = "FILTER_DATA" ->
                    << [type |-> "FILTER_COMPLETE",
                        data |-> FilterByMagnitude(message.payload.data,
                                                   message.payload.filters)] >>
               [] message.type = "SORT_DATA" ->
                    << [type |-> "SORT_COMPLETE",
                        data |-> SortByMagnitude(message.payload.data,
                                                 message.payload.direction)] >>
       IN  manager' = [manager EXCEPT !.toWorker = Tail(@),
                                      !.toMain = @ \o answer]
    /\ UNCHANGED << source, store, cachedData, calls, posted, apiCall,
                    tableVars, stream >>

\* the callback registered under the type of response, run for the promise
\* whose executor registered it
RunCallback(owner, response) ==
    LET promise == manager.promises[owner]
        settled ==
          CASE response.type = "CHUNK_PROCESSED" ->
                 [promise EXCEPT !.allData = @ \o response.data]
            [] response.type = "PARSE_COMPLETE" ->
                 [promise EXCEPT !.status = "resolved", !.value = promise.allData]
            [] response.type = "ERROR" ->
                 [promise EXCEPT !.status = "rejected"]
            [] OTHER ->
                 [promise EXCEPT !.status = "resolved", !.value = response.data]
    IN  [manager EXCEPT
           !.promises[owner] = IF promise.status = "pending" THEN settled
                               ELSE promise,
           !.callbacks = [type \in MessageTypes |->
                            IF /\ response.type # "CHUNK_PROCESSED"
                               /\ type \in CleanupTypes(promise.op)
                              THEN NoCallback ELSE @[type]]]

\* this.worker.onmessage of the manager on the oldest message of the worker
ManagerOnMessage ==
    /\ manager.toMain # << >>
    /\ LET response == Head(manager.toMain)
           callback == manager.callbacks[response.type]
           delivered == [manager EXCEPT !.toMain = Tail(@)]
       IN  manager' =
             IF callback = NoCallback THEN delivered
             ELSE [RunCallback(callback, response) EXCEPT !.toMain = Tail(@)]
    /\ UNCHANGED << source, store, cachedData, calls, posted, apiCall,
                    tableVars, stream >>

(***************************************************************************)
(* apiClient: fetchWithRetry                                               *)
(***************************************************************************)

\* USGS_CONFIG.MAX_RETRIES, the maxRetries of DEFAULT_RETRY_CONFIG
MAX_RETRIES == 3

\* what one fetchWithTimeout ends in: a response that is ok, a response
\* with a 4xx or a 5xx status, or an exception (timeout, network error)
ApiOutcomes == {"ok", "http404", "http500", "timeout"}

NoApiCall == [status |-> "idle", attempt |-> 0, requests |-> 0, last |-> ""]

\* fetchWithRetry(url) is called
fetchWithRetry ==
    /\ apiCall.status = "idle"
    /\ apiCall' = [apiCall EXCEPT !.status = "running"]
    /\ UNCHANGED << source, store, cachedData, calls, posted, manager, tableVars,
                    stream >>

\* one pass of the loop of fetchWithRetry: return response, or break and
\* throw new ApiError, or sleep and go on
ApiAttempt(outcome) ==
    /\ apiCall.status = "running"
    /\ apiCall' =
          [apiCall EXCEPT
             !.requests = apiCall.requests + 1,
             !.last = outcome,
             !.status =
                IF outcome = "ok" THEN "returned"
                ELSE IF apiCall.attempt = MAX_RETRIES \/ outcome = "http404"
                  THEN "thrown"
                ELSE "running",
             !.attempt =
                IF outcome = "ok" \/ apiCall.attempt = MAX_RETRIES
                     \/ outcome = "http404"
                  THEN apiCall.attempt
                ELSE apiCall.attempt + 1]
    /\ UNCHANGED << source, store, cachedData, calls, posted, manager, tableVars,
                    stream >>

IngestInit ==
    /\ source = << GoodRow >>
    /\ store = [data |-> << >>, loading |-> FALSE, error |-> "",
                lastFetched |-> 0, totalRecords |-> 0, validRecords |-> 0]
    /\ cachedData = NoCache
    /\ calls = << >>
    /\ posted = << >>
    /\ manager = NewManager(TRUE)
    /\ apiCall = NoApiCall

Init == TableInit /\ StreamInit /\ IngestInit

Next ==
    \/ StartLoad
    \/ \E n \in DataSizes : LoadSuccess(n)
    \/ LoadFail
    \/ \E id \in SampleIds : handleRowClick(id)
    \/ \E id \in SampleIds : handleDataPointClick(id)
    \/ clearSelection
    \/ \E top \in ScrollStops \cup {0, MaxScrollTop} : UserScroll(top)
    \/ handleScroll
    \/ \E field \in SortFields : PagedHandleSort(field)
    \/ FirstPage
    \/ handlePreviousPage
    \/ handleNextPage
    \/ LastPage
    \/ \E m \in MagnitudeOptions : SetMinMagnitude(m)
    \/ ClearFilters
    \/ ContainerFilterEffect
    \/ PagedSelectionEffect
    \/ \E field \in SortFields : V2HandleSort(field)
    \/ \E n \in DataSizes : FilterChange(n)
    \/ AppSyncEffect
    \/ V2SelectionEffect

Spec == Init /\ [][Next]_vars

\* the streaming hook on its own, under a fixed table
InitStream ==
    /\ TableInit
    /\ inst.table = "paged"
    /\ state = [data |-> NoData, loading |-> FALSE, error |-> FALSE,
                totalRows |-> 0, currentPage |-> 1, hasMore |-> FALSE,
                progress |-> Finite(0)]
    /\ requests = << >>
    /\ sourceRows \in SourceSizes
    /\ rejectedRows \in RejectedSizes
    /\ lastCall = [op |-> "none", arg |-> 0, ran |-> FALSE]
    /\ IngestInit

NextStream ==
    \/ \E page \in PageRequests : CallLoadPage(page)
    \/ loadNextPage
    \/ loadPreviousPage
    \/ loadFirstPage
    \/ \E page \in PageRequests : goToPage(page)
    \/ refresh
    \/ \E k \in 1..MaxRequests : onChunk(k)
    \/ \E k \in 1..MaxRequests : onComplete(k)
    \/ \E k \in 1..MaxRequests : onError(k)

SpecStream == InitStream /\ [][NextStream]_vars

\* the store, the fetch service and the data worker on a feed, under a
\* fixed table and an idle streaming hook
InitIngest ==
    /\ TableInit
    /\ inst.table = "paged"
    /\ StreamInit
    /\ source \in Feeds
    /\ store = [data |-> << >>, loading |-> FALSE, error |-> "",
                lastFetched |-> 0, totalRecords |-> 0, validRecords |-> 0]
    /\ cachedData = NoCache
    /\ calls = << >>
    /\ posted = << >>
    /\ manager = NewManager(TRUE)
    /\ apiCall = NoApiCall

NextIngest ==
    \/ Len(calls) < MaxCalls /\ \E cacheFresh \in BOOLEAN : fetchData(cacheFresh)
    \/ Len(calls) < MaxCalls /\ refreshData
    \/ \E k \in 1..MaxCalls : CacheHit(k)
    \/ \E k \in 1..MaxCalls, outcome \in Outcomes : Attempt(k, outcome)

SpecIngest == InitIngest /\ [][NextIngest]_vars

(***************************************************************************)
(* The two retrying fetchers, with the fairness of promises: a request     *)
(* that was made settles (fetch resolves, rejects or is aborted by its     *)
(* timeout), a sleep ends, and the continuation runs                       *)
(***************************************************************************)

\* one feed per result of parseCsvData: rows, PARSING_ERROR and NO_DATA
RetryFeeds ==
    { << GoodRow >>,
      << [GoodRow EXCEPT !.id = "", !.updated = 0, !.fields = "mismatch"] >>,
      << >> }

InitRetry == InitIngest /\ source \in RetryFeeds

\* the calls of fetchEarthquakeData are those of fetchData, which its
\* loading guard keeps one after the other
NextRetry ==
    \/ Len(calls) < MaxCalls /\ \E cacheFresh \in BOOLEAN : fetchData(cacheFresh)
    \/ \E k \in 1..MaxCalls : CacheHit(k)
    \/ \E k \in 1..MaxCalls, outcome \in Outcomes : Attempt(k, outcome)
    \/ fetchWithRetry
    \/ \E outcome \in ApiOutcomes : ApiAttempt(outcome)

SpecRetry ==
    /\ InitRetry
    /\ [][NextRetry]_vars
    /\ WF_vars(\E k \in 1..MaxCalls : CacheHit(k))
    /\ WF_vars(\E k \in 1..MaxCalls, outcome \in Outcomes : Attempt(k, outcome))
    /\ WF_vars(\E outcome \in ApiOutcomes : ApiAttempt(outcome))

(***************************************************************************)
(* The store and the module cache over a session of CacheCalls calls, on   *)
(* the feeds of the three results of parseCsvData                          *)
(***************************************************************************)

InitCache == InitIngest /\ source \in RetryFeeds

NextCache ==
    \/ Len(calls) < CacheCalls /\ \E cacheFresh \in BOOLEAN : fetchData(cacheFresh)
    \/ Len(calls) < CacheCalls /\ refreshData
    \/ \E k \in 1..CacheCalls : CacheHit(k)
    \/ \E k \in 1..CacheCalls, outcome \in Outcomes : Attempt(k, outcome)

SpecCache == InitCache /\ [][NextCache]_vars

(***************************************************************************)
(* The DataWorkerManager and its worker. The worker handles every message  *)
(* posted to it and the browser delivers every message it posts, so both   *)
(* onmessage handlers are weakly fair                                      *)
(***************************************************************************)

InitManager ==
    /\ TableInit
    /\ inst.table = "paged"
    /\ StreamInit
    /\ source = << GoodRow >>
    /\ store = [data |-> << >>, loading |-> FALSE, error |-> "",
                lastFetched |-> 0, totalRecords |-> 0, validRecords |-> 0]
    /\ cachedData = NoCache
    /\ calls = << >>
    /\ posted = << >>
    /\ manager \in {NewManager(worker) : worker \in BOOLEAN}
    /\ apiCall = NoApiCall

NextManager ==
    \/ \E csvContent \in WorkerCsvs : parseCSV(csvContent)
    \/ \E filters \in Filters : filterData(WorkerData, filters)
    \/ \E direction \in Directions : sortData(WorkerData, direction)
    \/ WorkerOnMessage
    \/ ManagerOnMessage

SpecManager ==
    /\ InitManager
    /\ [][NextManager]_vars
    /\ WF_vars(WorkerOnMessage)
    /\ WF_vars(ManagerOnMessage)

(***************************************************************************)
(* The data worker on its own: it shares no state with the store, so it is *)
(* run on every feed without the store's calls                             *)
(***************************************************************************)

InitWorker == InitIngest

NextWorker == handleParseCSV

SpecWorker == InitWorker /\ [][NextWorker]_vars


(***************************************************************************)
(* Properties of the window                                                *)
(***************************************************************************)

\* C1: whenever the table renders rows, the materialized index range
\* [start, end) of the slice of n items satisfies 0 <= start <= end <= n,
\* also with a scroll offset left over from a longer list.
WindowWithinBounds ==
    Mounted =>
        /\ 0 <= WindowStart
        /\ WindowStart <= WindowEnd
        /\ WindowEnd <= SliceLength

\* the overscan of the window formula: OVERSCAN in VirtualizedTableV2, the
\* two extra rows of VirtualizedTable
FormulaOverscan == IF table = "paged" THEN 2 ELSE OVERSCAN

\* C2 as stated: the window is start = max(0, floor(scrollOffset /
\* itemHeight) - overscan), exclusive end = min(n, ceil((scrollOffset +
\* containerHeight) / itemHeight) + overscan), and for container height 600,
\* item height 60, scrollOffset 0 and n = 1000 it is [0, 12).
WindowIsSpecFormula ==
    Mounted =>
        /\ WindowStart = Max(0, Floor(scrollTop, itemHeight) - FormulaOverscan)
        /\ WindowEnd =
              Min(SliceLength,
                  Ceil(scrollTop + ContainerHeight, itemHeight) + FormulaOverscan)
        /\ (ContainerHeight = 600 /\ itemHeight = 60 /\ scrollTop = 0
              /\ SliceLength = 1000)
             => (WindowStart = 0 /\ WindowEnd = 12)

\* C2 amended: VirtualizedTableV2 materializes the rows start..end-1 with
\* start = max(0, floor(scrollOffset / itemHeight) - 5) and exclusive end =
\* min(n, ceil((scrollOffset + containerHeight) / itemHeight) + 5 + 1), its
\* end index being inclusive, which for container height 600, item height
\* 60, scrollOffset 0 and n = 1000 is [0, 16); VirtualizedTable materializes
\* the rows floor(scrollOffset / itemHeight) .. min(n, floor(scrollOffset /
\* itemHeight) + visibleItems + 2) - 1 of its page of n rows, which for
\* scrollOffset 0, 15 visible items and a page of 50 is [0, 17).
WindowIsCodeFormula ==
    Mounted =>
        /\ table = "v2" =>
              /\ visibleData =
                    Max(0, scrollTop \div itemHeight - 5)
                    .. (Min(N, Ceil(scrollTop + visibleItems * itemHeight,
                                    itemHeight) + 5 + 1) - 1)
              /\ (visibleItems * itemHeight = 600 /\ itemHeight = 60
                    /\ scrollTop = 0 /\ N = 1000)
                   => visibleData = 0..15
        /\ table = "paged" =>
              /\ visibleData =
                    (scrollTop \div itemHeight)
                    .. (Min(PaginatedLength,
                            scrollTop \div itemHeight + visibleItems + 2) - 1)
              /\ (scrollTop = 0 /\ visibleItems = 15 /\ PaginatedLength = 50)
                   => visibleData = 0..16

\* C2 witness: the V2 table of 1000 records, 600 px high with 60 px rows,
\* at the top, materializing the 16 rows 0..15
WindowScenarioReached ==
    /\ table = "v2" /\ Mounted
    /\ visibleItems * itemHeight = 600 /\ itemHeight = 60
    /\ N = 1000 /\ scrollTop = 0
    /\ visibleData = 0..15

\* C3: after the list shrank, the scroll offset is at most
\* max(0, n * itemHeight - containerHeight) once the table has settled.
ScrollOffsetClamped ==
    (Settled /\ Mounted) =>
        scrollTop <= Max(0, SliceLength * itemHeight - ContainerHeight)

(***************************************************************************)
(* Properties of the selection                                             *)
(***************************************************************************)

\* C4: once a record of the table's data has been selected and the table's
\* reaction has run to the end, the row of the record is materialized.
SelectedRowMaterialized ==
    (/\ Settled /\ Mounted
     /\ lastEvent.kind = "select"
     /\ selectedId # NoRecord
     /\ FindIndex(selectedId) >= 0)
        => Rendered(selectedId)

\* C5: a step that ends a table row click or a chart point click on a record
\* leaves selectedId at that record's id, the one value both views read; a
\* clearSelection leaves it null; and no other step changes it.
SelectionReadBack ==
    [][ /\ lastEvent'.kind = "select" => selectedId' = lastEvent'.arg
        /\ lastEvent'.kind = "clear" => selectedId' = NoRecord
        /\ lastEvent'.kind \notin {"select", "clear"} => selectedId' = selectedId
      ]_vars

\* C5 witness: a record clicked in the chart replaced one clicked in the
\* table, and the table has finished reacting
SelectionReplaced ==
    /\ lastEvent.kind = "select"
    /\ lastEvent.arg = 120
    /\ selectedEarthquake = [id |-> 120, via |-> "chart"]
    /\ Settled /\ Mounted

\* the page (from 1) that holds index i of the list
PageHolding(i) ==
    CHOOSE p \in 1..(N + 1) : (p - 1) * pageSize <= i /\ i < p * pageSize

\* C6: when the paged table's selection effect runs for a selected record of
\* its data whose index is on another page than the current one, that step
\* sets the current page to floor(index / pageSize) + 1 and the scroll
\* offset to 0.
SelectionChangesPage ==
    [][ (/\ table = "paged"
         /\ SelEffectEnabled
         /\ selectedId # NoRecord
         /\ FindIndex(selectedId) >= 0
         /\ PageHolding(FindIndex(selectedId)) # currentPage)
          => /\ currentPage' = PageHolding(FindIndex(selectedId))
             /\ scrollTop' = 0
      ]_vars

\* C6 witness: a record on page 3 of the 50-per-page table was selected
\* while the table was on page 1, and the effect has just moved the table
SelectionMovedToPageThree ==
    /\ table = "paged" /\ pageSize = 50
    /\ lastEvent.kind = "select" /\ lastEvent.from = 1
    /\ FindIndex(selectedId) \div 50 = 2
    /\ currentPage = 3
    /\ scrollTop = 0
    /\ selEffect = "due"

(***************************************************************************)
(* Properties of the pagination                                            *)
(***************************************************************************)

\* C7: once a sort change or a filter change of the paged table has been
\* fully processed, the table is on page 1, with or without a selected
\* record; a list filtered down to 4 records has one page.
SortFilterResetsPage ==
    (/\ table = "paged"
     /\ Settled /\ Mounted
     /\ lastEvent.kind \in {"sort", "filter"})
        => /\ currentPage = 1
           /\ N = 4 => totalPages = 1

\* C8: after goToPage(p) the streaming hook's current page is
\* min(max(p, 1), totalPages).
GoToPageClamps ==
    (lastCall.op = "goToPage" /\ StreamTotalPages >= 1)
        => state.currentPage = Min(Max(lastCall.arg, 1), StreamTotalPages)

\* C9: in a settled state of the paged table with a non-empty list,
\* 1 <= currentPage <= totalPages = ceil(count / pageSize) and the page
\* range satisfies 0 <= start <= end <= count, also after the list shrank
\* while the table was on a later page.
PageWithinRange ==
    (table = "paged" /\ Settled /\ ComponentMounted /\ N > 0) =>
        /\ totalPages = Ceil(N, pageSize)
        /\ 1 <= currentPage
        /\ currentPage <= totalPages
        /\ 0 <= PagedStartIndex
        /\ PagedStartIndex <= PagedEndIndex
        /\ PagedEndIndex <= N

(***************************************************************************)
(* Properties of overlapping loads                                         *)
(***************************************************************************)

\* C10: when every loadPage call has finished and the latest one completed,
\* the data of the hook is the result of the latest call.
LatestRequestWins ==
    (/\ Len(requests) > 0
     /\ \A k \in 1..Len(requests) : requests[k].status # "pending"
     /\ requests[Len(requests)].status = "complete")
        => state.data.req = Len(requests)

(***************************************************************************)
(* Frame properties of the selection                                       *)
(***************************************************************************)

\* the table stays where it is in this step: its page, its scroll offset
\* and the scrollTop of its container
WindowStays ==
    /\ currentPage' = currentPage
    /\ scrollTop' = scrollTop
    /\ domScrollTop' = domScrollTop

\* C18: the step of clearSelection sets the selection to null, and neither
\* it nor any step of the table's reaction to it changes the current page
\* or the scroll offset.
ClearKeepsWindow ==
    [][ lastEvent'.kind = "clear"
          => (selectedEarthquake' = NoSelection /\ WindowStays)
      ]_vars

\* C18 witness: the selection was cleared while the paged table was on
\* page 3, scrolled down to the record selected before, and the table has
\* finished reacting
ClearedOnPageThree ==
    /\ table = "paged"
    /\ lastEvent.kind = "clear"
    /\ selectedEarthquake = NoSelection
    /\ Settled /\ Mounted
    /\ currentPage = 3
    /\ scrollTop > 0

\* C19: the step that selects a record that is not in the table's data
\* (the data are the records 1..N) sets the selection to it, and neither
\* it nor any step of the table's reaction changes the current page or the
\* scroll offset.
AbsentSelectionKeepsWindow ==
    [][ (lastEvent'.kind = "select" /\ lastEvent'.arg > N')
          => (selectedId' = lastEvent'.arg /\ WindowStays)
      ]_vars

\* C19 witness: record 120, which the magnitude filter has removed from the
\* paged table of 100 records, was selected in the chart while the table
\* was on page 2 and scrolled down, and the table has finished reacting
AbsentRecordSelected ==
    /\ table = "paged"
    /\ lastEvent.kind = "select"
    /\ selectedEarthquake = [id |-> 120, via |-> "chart"]
    /\ N = 100
    /\ Settled /\ Mounted
    /\ currentPage = 2
    /\ scrollTop > 0 /\ domScrollTop = scrollTop

\* C20: neither the step of a row click nor any step of the table's
\* reaction to it changes the table's current page or scroll offset.
RowClickKeepsWindow ==
    [][ (lastEvent'.kind = "select" /\ selectedEarthquake'.via = "table")
          => WindowStays
      ]_vars

\* C21: when the selection effect runs for a record of the table's data
\* that is on the current page (any record, in the table without pages) and
\* moves the container, it moves it to max(0, indexInSlice * itemHeight -
\* containerHeight / 2 + itemHeight / 2), written here with both sides
\* doubled.
SelectionCentred ==
    [][ (/\ SelEffectEnabled /\ Mounted
         /\ selectedId # NoRecord
         /\ FindIndex(selectedId) >= 0
         /\ table = "paged" => PageHolding(FindIndex(selectedId)) = currentPage
         /\ selectedEarthquake' = selectedEarthquake
         /\ domScrollTop' # domScrollTop)
          => 2 * domScrollTop' =
                Max(0, 2 * (FindIndex(selectedId) - SliceBase) * itemHeight
                         - ContainerHeight + itemHeight)
      ]_vars

(***************************************************************************)
(* Properties of the displayed sequence                                    *)
(***************************************************************************)

\* the number of records of the store that satisfy the filter the user set
\* last: the magnitude option m of the paged table's container, the first
\* n records for the filter panel of App
Matching(setting) ==
    IF table = "paged"
      THEN Cardinality({id \in 1..rawN : setting = 0 \/ Magnitude(id) >= setting})
      ELSE Min(setting, rawN)

\* C22: once a filter change has been processed, the table's data are
\* exactly the records of the store that satisfy the filter (the table
\* orders them by the sort set, see DataAt); a filter that matches no
\* record gives an empty table.
ViewIsFilteredData ==
    (Settled /\ ComponentMounted /\ lastEvent.kind = "filter") =>
        /\ N = Matching(lastEvent.arg)
        /\ Matching(lastEvent.arg) = 0 => ~Mounted

\* C26: in every settled state of the paged table in which a record of its
\* data is selected, the current page is the page of that record,
\* floor(selectedIndex / pageSize) + 1, also after a page button was used.
SelectionPinsPage ==
    (/\ table = "paged"
     /\ Settled /\ Mounted
     /\ selectedId # NoRecord
     /\ FindIndex(selectedId) >= 0)
        => currentPage = FindIndex(selectedId) \div pageSize + 1

\* C26 witness: with record 120 of page 3 selected, a page button took the
\* table away from page 3, and the table has settled on page 3 again
PageChangeUndone ==
    /\ table = "paged" /\ pageSize = 50
    /\ Settled /\ Mounted
    /\ selectedId = 120 /\ FindIndex(selectedId) = 119
    /\ lastEvent.kind = "page" /\ lastEvent.arg # 3
    /\ currentPage = 3

(***************************************************************************)
(* Properties of the store's fetch                                         *)
(***************************************************************************)

\* call k of the store ends in failure in this step
CallFails(k) ==
    /\ k \in 1..Len(calls)
    /\ calls[k].status = "running"
    /\ calls'[k].status = "failed"

\* C11: the two steps a failing fetchData or refreshData takes on the store,
\* its start and its failure, leave data, totalRecords, validRecords and
\* lastFetched as they were; the failure sets loading to false and error to
\* the reason.
FailedFetchKeepsData ==
    [][ (Len(calls') > Len(calls) \/ \E k \in 1..MaxCalls : CallFails(k))
          => /\ store'.data = store.data
             /\ store'.totalRecords = store.totalRecords
             /\ store'.validRecords = store.validRecords
             /\ store'.lastFetched = store.lastFetched
             /\ (\E k \in 1..MaxCalls : CallFails(k))
                  => (~store'.loading /\ store'.error # "")
      ]_vars

\* C11 witness: a refresh failed after an earlier call had succeeded, and
\* the store still holds the earlier call's records and counts
FailedAfterSuccess ==
    /\ Len(calls) = 2
    /\ calls[1].status = "succeeded"
    /\ calls[2].op = "refreshData" /\ calls[2].status = "failed"
    /\ store.error = calls[2].reason /\ store.error # ""
    /\ Len(store.data) = 2
    /\ store.totalRecords = 2 /\ store.validRecords = 2
    /\ store.lastFetched = 1

(***************************************************************************)
(* Properties of the ingestion                                             *)
(***************************************************************************)

\* the positions of the terminal events in a sequence of events
Terminals(events) ==
    {i \in 1..Len(events) : events[i] \in {"complete", "failed"}}

Validates(row) ==
    row.fields = "ok" /\ HasRequiredFields(row) /\ Transformable(row)

\* call k is over and got the CSV text (its result is that of the parse)
GotText(k) ==
    /\ k \in 1..Len(calls)
    /\ calls[k].via = "network"
    /\ calls[k].status # "running"
    /\ calls[k].reason \notin {"empty", "http404", "timeout"}

\* C13: a fetch that got a CSV text with at least one valid row succeeds,
\* and after a successful fetch the store holds every valid row, with
\* totalRecords the number of rows seen and validRecords the number kept.
InvalidRowsNeverAbort ==
    /\ \A k \in 1..Len(calls) :
          (GotText(k) /\ \E i \in 1..Len(source) : Validates(source[i]))
             => calls[k].status = "succeeded"
    /\ store.lastFetched # 0 =>
          /\ store.data = TransformAll(SelectSeq(source, Validates))
          /\ store.totalRecords = Len(source)
          /\ store.validRecords = Len(SelectSeq(source, Validates))

\* C14: a fetch that is over has failed exactly when it could not get a
\* CSV text (empty body, HTTP error, timeout) or no row of the text
\* validates; so a text whose rows are all rejected gives a failure.
FailsExactlyWithoutValidRow ==
    \A k \in 1..Len(calls) :
        (calls[k].via = "network" /\ calls[k].status # "running") =>
            (calls[k].status = "failed"
               <=> \/ ~GotText(k)
                   \/ \A i \in 1..Len(source) : ~Validates(source[i]))

\* C15: the count a completed parse reports is the number of rows seen,
\* valid plus rejected: 252 for 247 valid and 5 rejected rows.
CompleteCountsAllRows ==
    \A k \in 1..Len(requests) :
        requests[k].status = "complete" =>
            /\ requests[k].rowCount = sourceRows + rejectedRows
            /\ state.totalRows = sourceRows + rejectedRows

\* C16: the store's data holds at most one record per id, and of two valid
\* rows of the feed with the same id and differing updated it holds
\* exactly the one with the later updated.
OneRecordPerId ==
    /\ \A i, j \in 1..Len(store.data) :
          i # j => store.data[i].id # store.data[j].id
    /\ store.lastFetched # 0 =>
          \A i, j \in 1..Len(source) :
              (/\ Validates(source[i]) /\ Validates(source[j])
               /\ source[i].id = source[j].id
               /\ source[i].updated < source[j].updated)
                 => /\ \E n \in 1..Len(store.data) :
                          store.data[n] = transformEarthquakeData(source[j])
                    /\ \A n \in 1..Len(store.data) :
                          store.data[n] # transformEarthquakeData(source[i])

\* C17: every record the data worker posts comes from a row of the feed
\* that validates, with the row's id and time and the numbers its
\* latitude, longitude and magnitude spell.
RecordsFromValidRows ==
    \A m \in 1..Len(posted) :
        \A n \in 1..Len(posted[m].data) :
            LET record == posted[m].data[n]
            IN  \E i \in 1..Len(source) :
                    /\ Validates(source[i])
                    /\ record.id = source[i].id
                    /\ record.time = source[i].time
                    /\ record.latitude = ParseFloat(source[i].latitude).val
                    /\ record.longitude = ParseFloat(source[i].longitude).val
                    /\ record.magnitude = ParseFloat(source[i].mag).val

\* data.findIndex(eq => eq.id === id) over the records of the store, which
\* the tables get as their data; positions from 1, 0 for "not found"
StoreFindIndex(id) ==
    LET found == {i \in 1..Len(store.data) : store.data[i].id = id}
    IN  IF found = {} THEN 0
        ELSE CHOOSE i \in found : \A j \in found : i <= j

\* C23: for every position i of the store's records, the position found
\* for the id of the record at i is i.
LookupsAgree ==
    \A i \in 1..Len(store.data) : StoreFindIndex(store.data[i].id) = i

\* C24: a parse that has completed has emitted a chunk at every 100th valid
\* row and one more for the rows after the last full hundred, so that the
\* chunks cover every valid row: 3 chunks for 247 rows.
ChunksCoverAllRows ==
    \A k \in 1..Len(requests) :
        requests[k].status = "complete" =>
            Cardinality({i \in 1..Len(requests[k].events) :
                           requests[k].events[i] = "chunk"})
              = Ceil(sourceRows, ChunkRows)

\* C30: the progress of the hook is an integer from 0 to 100.
ProgressIsPercentage ==
    /\ ~state.progress.inf
    /\ state.progress.val \in 0..100

\* call k of the store has made its last request: it got the CSV text, a
\* 404, or has used up its attempts
LastRequestMade(k) ==
    /\ k \in 1..Len(calls)
    /\ calls[k].status # "running"

\* C25: fetchWithRetry makes at most MAX_RETRIES + 1 requests, none after a
\* 4xx response, and then has returned a response or thrown;
\* fetchEarthquakeData makes at most Retries requests, none after a parsing
\* error or a 404, and returns a result, with no records when it failed;
\* and from some point on no call of either is still running.
RetriesEnd ==
    /\ [](/\ apiCall.requests <= MAX_RETRIES + 1
          /\ apiCall.status = "returned" => apiCall.last = "ok"
          /\ apiCall.status = "running" =>
                apiCall.last \in {"", "http500", "timeout"}
          /\ \A k \in 1..Len(calls) :
                /\ calls[k].attempt <= Retries
                /\ calls[k].status = "running" =>
                      calls[k].reason \notin {"http404", "PARSING_ERROR", "NO_DATA"}
                /\ calls[k].status = "failed" =>
                      (calls[k].records = 0 /\ calls[k].reason # ""))
    /\ [][ /\ apiCall.status \in {"returned", "thrown"} => apiCall' = apiCall
           /\ \A k \in 1..Len(calls) :
                 LastRequestMade(k) => calls'[k] = calls[k]
           /\ \A k \in 1..Len(calls) :
                 calls'[k].attempt # calls[k].attempt
                    => calls'[k].attempt = calls[k].attempt + 1
         ]_vars
    /\ <>[](/\ \A k \in 1..MaxCalls : ~Running(k)
            /\ apiCall.status # "running")

\* C25 witness: a call of fetchEarthquakeData has failed after its third
\* request, another got the CSV text at its second, and fetchWithRetry has
\* thrown after its fourth request
AttemptsUsedUp ==
    /\ Len(calls) = 2
    /\ \E k \in 1..2 :
          /\ calls[k].status = "failed" /\ calls[k].attempt = 3
          /\ calls[k].reason = "timeout"
    /\ \E k \in 1..2 : calls[k].status # "running" /\ calls[k].attempt = 2
    /\ apiCall.status = "thrown" /\ apiCall.requests = 4

\* C27: in the earthquake store, loading is true in every state in which a
\* fetchData or refreshData call is still in flight, and false once all of
\* them have completed
LoadingWhileInFlight ==
    store.loading <=> (\E k \in 1..MaxCalls : Running(k))

\* C28: the module cache changes only when a fetch through
\* getCachedEarthquakeData succeeds with at least one record, and a
\* fetchData that completes after a successful refreshData does not put
\* records into the store that were fetched before the store's
CacheKeepsStoreFresh ==
    [][ /\ cachedData' # cachedData =>
              \E k \in 1..Len(calls) :
                  /\ Running(k)
                  /\ calls[k].op = "fetchData" /\ calls[k].via = "network"
                  /\ calls'[k].status = "succeeded"
                  /\ calls'[k].records > 0
        /\ \A k \in 1..Len(calls) :
              (/\ Running(k)
               /\ calls[k].op = "fetchData"
               /\ calls'[k].status = "succeeded"
               /\ \E j \in 1..Len(calls) :
                     calls[j].op = "refreshData" /\ calls[j].status = "succeeded")
                  => store'.lastFetched >= store.lastFetched
      ]_vars

\* the records the worker posts for the CSV of parseCSV promise k
OwnRecords(k) ==
    LET messages == ParseCSVMessages(manager.promises[k].input)
    IN  IF Len(messages) = 2 THEN messages[1].data ELSE << >>

\* C29: every promise of parseCSV, filterData and sortData eventually
\* settles, also when two calls overlap, and a parseCSV promise resolves
\* with the records of its own CSV only
PromisesSettle ==
    /\ [](\A k \in 1..Len(manager.promises) :
             (/\ manager.promises[k].op = "parseCSV"
              /\ manager.promises[k].status = "resolved")
                 => manager.promises[k].value = OwnRecords(k))
    /\ <>[](\A k \in 1..Len(manager.promises) :
               manager.promises[k].status # "pending")

\* the messages of the data worker for one PARSE_CSV: CHUNK_PROCESSED
\* messages, then one PARSE_COMPLETE or one ERROR
WorkerMessagesOrdered ==
    LET terminal == {i \in 1..Len(posted) :
                       posted[i].type \in {"PARSE_COMPLETE", "ERROR"}}
    IN  /\ Cardinality(terminal) <= 1
        /\ \A i \in terminal : i = Len(posted)

====
